---- MODULE Spec2Model ----
(***************************************************************************)
(* Model of the image-discovery crawl engine of                            *)
(* product/scripts/image_batch_downloader.py: the traversal loop of        *)
(* crawl_and_download, the per-candidate resolver download_image and the   *)
(* final de-duplication of extract_image_candidates.  The fetch capability *)
(* (session.get) and the HTML parse are external: every fetch draws its    *)
(* response from a fixed set of possible responses.  A second              *)
(* specification, RunsSpec, crawls a one-page site several times, with     *)
(* the variant resolver guess_fullsize_variants computed on the tokens of  *)
(* the image URL.                                                          *)
(***************************************************************************)
EXTENDS Integers, Sequences, FiniteSets, TLC

(***************************************************************************)
(* Bounds of the model.                                                    *)
(***************************************************************************)
\* args.max_pages ranges over 0..MaxPagesCap
MaxPagesCap == 2

(***************************************************************************)
(* URLs.  A URL is a record of its scheme, its netloc and its path; the    *)
(* path is a sequence of tokens so that substring tests of the code become *)
(* tests on tokens.                                                        *)
(***************************************************************************)
U(h, p) == [scheme |-> "http", host |-> h, path |-> p]

P1 == U("a.example", <<"/", "p1">>)
P2 == U("a.example", <<"/", "p2">>)
PU == U("A.example", <<"/", "p2">>)
PB == U("b.example", <<"/", "p1">>)

ImgThumb == U("a.example", <<"/", "img", "/", "cat", "-", "thumb", ".jpg">>)
ImgFull == U("a.example", <<"/", "img", "/", "cat", ".jpg">>)
ImgCdn == U("cdn.example", <<"/", "dog", ".png">>)
ImgAvatar == U("a.example", <<"/", "avatar", ".png">>)
ImgAds == U("a.example", <<"/", "ADS", "/", "banner">>)

PageUrls == {P1, P2, PU, PB}

\* str.lower() on the tokens of the model.
Lower(s) ==
  CASE s = "A.example" -> "a.example"
    [] s = "ADS" -> "ads"
    [] s = " ADS " -> " ads "
    [] s = "Thumb" -> "thumb"
    [] s = "W" -> "w"
    [] s = "X" -> "x"
    [] s = "Quality" -> "quality"
    [] OTHER -> s

\* str.strip() on the tokens of the model.
Strip(s) ==
  CASE s = " ADS " -> "ADS"
    [] s = " " -> ""
    [] OTHER -> s

Range(s) == {s[i] : i \in DOMAIN s}

\* The sorted() order of the page URLs as strings (upper case sorts first).
UrlOrder == <<PU, P1, P2, PB>>

RECURSIVE SortedFrom(_, _)
SortedFrom(S, i) ==
  IF i > Len(UrlOrder) THEN <<>>
  ELSE (IF UrlOrder[i] \in S THEN <<UrlOrder[i]>> ELSE <<>>) \o SortedFrom(S, i + 1)

Sorted(S) == SortedFrom(S, 1)

(***************************************************************************)
(* Pure helpers of the source.                                             *)
(***************************************************************************)
None == [none |-> TRUE]

\* Mutant of NormalizeUrl: the scheme is not tested.
NormalizeUrlAnyScheme(raw) == [scheme |-> raw.scheme, host |-> raw.host, path |-> raw.path]

\* normalize_url(x, x) on an absolute raw URL [scheme, host, path, frag].
NormalizeUrl(raw) ==
  IF raw.scheme \notin {"http", "https"} THEN None
  ELSE [scheme |-> raw.scheme, host |-> raw.host, path |-> raw.path]

HostOf(url) == Lower(url.host)

ImageExts == {".jpg", ".jpeg", ".png", ".gif", ".webp", ".bmp", ".tif", ".tiff",
              ".svg", ".avif", ".heic"}

LooksLikeImageUrl(url) == Lower(url.path[Len(url.path)]) \in ImageExts

THUMB_HINTS == {"thumb", "thumbnail", "_tn", "-tn", "_sm", "-sm", "_small", "-small",
                "small/", "/small"}

\* The lowered tokens a keyword can match in a URL.
UrlTokens(url) == {Lower(url.host)} \cup {Lower(t) : t \in Range(url.path)}

\* Mutant of KeywordMatch: the URL is not lowered before the test.
KeywordMatchCaseSensitive(url, keywords) ==
  \E k \in keywords : k \in {url.host} \cup Range(url.path)

KeywordMatch(url, keywords) == \E k \in keywords : k \in UrlTokens(url)

Sha256(data) == <<"sha256", data.id, data.len>>

IsHtmlResponse(resp) ==
  resp.ctype \in {"text/html", "text/html; charset=utf-8", "application/xhtml+xml", ""}

\* The final de-duplication of extract_image_candidates: the first candidate
\* of each first URL is kept.
\* Mutant of DedupFrom: every candidate is kept.
DedupFromKeepsAll(out, i, seen_first_url) == SubSeq(out, i, Len(out))

RECURSIVE DedupFrom(_, _, _)
DedupFrom(out, i, seen_first_url) ==
  IF i > Len(out) THEN <<>>
  ELSE IF out[i].urls[1] \in seen_first_url THEN DedupFrom(out, i + 1, seen_first_url)
  ELSE <<out[i]>> \o DedupFrom(out, i + 1, seen_first_url \cup {out[i].urls[1]})

ExtractImageCandidates(soup) == DedupFrom(soup.out, 1, {})

(***************************************************************************)
(* The responses the fetch capability can give.                            *)
(***************************************************************************)
Cand(urls, prof) == [urls |-> urls, skip_profile |-> prof]

\* Candidate lists a page can hold before the final de-duplication.
CandLists ==
  { <<Cand(<<ImgThumb, ImgFull>>, FALSE)>>,
    <<Cand(<<ImgFull>>, FALSE), Cand(<<ImgFull, ImgCdn>>, FALSE)>>,
    <<Cand(<<ImgAvatar>>, TRUE), Cand(<<ImgCdn>>, FALSE)>>,
    <<Cand(<<ImgAds>>, TRUE), Cand(<<ImgThumb, ImgAds>>, FALSE)>> }

\* Link sets discover_links can return for a page.
LinkSets == { {}, {P1, P2}, {P2, PU, PB} }

Soups == [out : CandLists, links : LinkSets]

TransportError == [err |-> TRUE]

Resp(status, ctype, body) == [err |-> FALSE, status |-> status, ctype |-> ctype, body |-> body]

NoBody == [out |-> <<>>, links |-> {}]

PageResponses ==
  {TransportError, Resp(404, "text/html", NoBody), Resp(200, "image/jpeg", NoBody)}
    \cup {Resp(200, "text/html", s) : s \in Soups}

Empty == [id |-> "", len |-> 0]
ErrorPage == [id |-> "not found", len |-> 300]
Tiny == [id |-> "cat", len |-> 100]
CatBytes == [id |-> "cat", len |-> 2000]

ImageResponses ==
  {TransportError, Resp(404, "image/jpeg", ErrorPage), Resp(200, "text/html", CatBytes),
   Resp(200, "image/jpeg", Empty), Resp(200, "image/jpeg", Tiny),
   Resp(200, "image/jpeg", CatBytes)}

RawUrl(s, h, p, f) == [scheme |-> s, host |-> h, path |-> p, frag |-> f]

StartUrlArgs ==
  { <<RawUrl("http", "a.example", <<"/", "p1">>, "top"),
      RawUrl("ftp", "a.example", <<"/", "p2">>, ""),
      RawUrl("http", "a.example", <<"/", "p1">>, "")>>,
    <<RawUrl("ftp", "a.example", <<"/", "p1">>, "")>> }

SkipKeywordArgs == { <<>>, <<" ADS ", " ">> }

VARIABLES
  args,             \* the parsed command line
  pc,               \* position of crawl_and_download
  result,           \* its return value
  allowed_hosts, skip_keywords,
  queue, visited_pages, seen_image_urls, seen_hashes,
  total_pages, counts,
  manifest,         \* the rows written after the header
  files,            \* the files written: the manifest and the images
  page_url, soup, candidates,
  ci,               \* index of the candidate of the for loop of the page
  vi,               \* index of the variant of the for loop of download_image
  tried,            \* history: the fetches of the running download_image call
  page_fetches,     \* history: number of page fetches per URL
  page_outcomes,    \* history: the terminal states each page URL reached
  enqueued,         \* history: the URLs ever placed in the frontier
  revisit_seen,     \* history: a discovered link pointed at a visited page
  returned,         \* history: the last download_image call (candidate, fetches, status)
  img_src,          \* the URL of the only image of a one-page site
  fetch,            \* the response of that site to each image URL
  runs,             \* the crawls of that site so far: variants, fetches, manifest row
  fn_call,          \* a call of a pure function of the source: its name and argument
  fn_ret            \* what the call returned (<<>> before it returns)

vars == <<args, pc, result, allowed_hosts, skip_keywords, queue, visited_pages,
          seen_image_urls, seen_hashes, total_pages, counts, manifest, files,
          page_url, soup, candidates, ci, vi, tried, page_fetches,
          page_outcomes, enqueued, revisit_seen, returned, img_src, fetch, runs,
          fn_call, fn_ret>>

config == <<args, allowed_hosts, skip_keywords>>
seen_sets == <<seen_image_urls, seen_hashes>>
outputs == <<counts, manifest, files, returned>>
page_vars == <<page_url, soup, candidates, ci>>
resolver_vars == <<vi, tried>>
page_hist == <<page_fetches, page_outcomes, revisit_seen>>
run_vars == <<img_src, fetch, runs>>
call_vars == <<fn_call, fn_ret>>

\* The command lines of the model.
ArgsSpace ==
  [start_urls : StartUrlArgs, max_pages : 0..MaxPagesCap, allow_cross_domain : BOOLEAN,
   dry_run : BOOLEAN, skip_url_keyword : SkipKeywordArgs]

\* crawl_and_download is entered with the command line a.
CrawlEntered(a) ==
  /\ args = a
  /\ pc = "init"
  /\ result = -1
  /\ allowed_hosts = {}
  /\ skip_keywords = {}
  /\ queue = <<>>
  /\ visited_pages = {}
  /\ seen_image_urls = {}
  /\ seen_hashes = {}
  /\ total_pages = 0
  /\ counts = [downloaded |-> 0, would_download |-> 0, skipped_profile |-> 0,
               duplicates |-> 0, failed |-> 0]
  /\ manifest = <<>>
  /\ files = {}
  /\ page_url = None
  /\ soup = NoBody
  /\ candidates = <<>>
  /\ ci = 1
  /\ vi = 1
  /\ tried = <<>>
  /\ page_fetches = [u \in PageUrls |-> 0]
  /\ page_outcomes = [u \in PageUrls |-> <<>>]
  /\ enqueued = {}
  /\ revisit_seen = FALSE
  /\ returned = <<>>

Init ==
  /\ \E a \in ArgsSpace : CrawlEntered(a)
  /\ img_src = None
  /\ fetch = <<>>
  /\ runs = <<>>
  /\ fn_call = None
  /\ fn_ret = <<>>

\* start_urls = [u for u in (normalize_url(x, x) for x in args.start_urls) if u]
StartUrls ==
  LET norm == [i \in DOMAIN args.start_urls |-> NormalizeUrl(args.start_urls[i])]
      Valid(u) == u # None
  IN SelectSeq(norm, Valid)

\* skip_keywords = [k.strip().lower() for k in args.skip_url_keyword if k.strip()]
SkipKeywords ==
  {Lower(Strip(k)) : k \in {x \in Range(args.skip_url_keyword) : Strip(x) # ""}}

\* manifest_path = output_root / "manifest.csv"
ManifestPath == <<"manifest.csv">>

\* The start URLs are normalized; without a valid one the crawl aborts with 2,
\* otherwise the configuration is derived, the frontier is filled and the
\* manifest is opened.
Start ==
  /\ pc = "init"
  /\ IF StartUrls = <<>>
     THEN /\ pc' = "aborted"
          /\ result' = 2
          /\ UNCHANGED <<allowed_hosts, skip_keywords, queue, enqueued, files>>
     ELSE /\ pc' = "loop"
          /\ files' = files \cup {ManifestPath}
          /\ allowed_hosts' = {HostOf(u) : u \in Range(StartUrls)}
          /\ skip_keywords' = SkipKeywords
          /\ queue' = StartUrls
          /\ enqueued' = Range(StartUrls)
          /\ UNCHANGED result
  /\ UNCHANGED <<args, visited_pages, seen_sets, total_pages, counts, manifest, returned,
                 page_vars, resolver_vars, page_hist>>
  /\ UNCHANGED <<run_vars, call_vars>>

\* Mutant of LoopCond: the page cap is not tested.
LoopCondNoCap == queue # <<>>

\* while queue and total_pages < args.max_pages
LoopCond == queue # <<>> /\ total_pages < args.max_pages

\* Mutant of HostAllowed: the host test is dropped.
HostAllowedAnyHost(url) == TRUE

\* not (not args.allow_cross_domain and host_of(url) not in allowed_hosts)
HostAllowed(url) == args.allow_cross_domain \/ HostOf(url) \in allowed_hosts

\* resp.status_code >= 400 or not is_html_response(resp)
PageRejected(resp) == resp.status >= 400 \/ ~IsHtmlResponse(resp)

\* Mutant of PopLeft: the head is read but not removed.
PopLeftPeek(q) == q

\* page_url = queue.popleft(): the queue that is left
PopLeft(q) == Tail(q)

\* Mutant of AlreadyVisited: the visited test at dequeue is dropped.
AlreadyVisitedNever(url) == FALSE

\* if page_url in visited_pages: continue
AlreadyVisited(url) == url \in visited_pages

\* the loop ends: the summary is printed and 0 is returned
LoopExit ==
  /\ pc = "loop"
  /\ ~LoopCond
  /\ pc' = "done"
  /\ result' = 0
  /\ UNCHANGED <<config, queue, enqueued, visited_pages, seen_sets, total_pages, outputs,
                 page_vars, resolver_vars, page_hist>>
  /\ UNCHANGED <<run_vars, call_vars>>

\* page_url = queue.popleft(); if page_url in visited_pages: continue
SkipVisited ==
  /\ pc = "loop"
  /\ LoopCond
  /\ AlreadyVisited(Head(queue))
  /\ queue' = PopLeft(queue)
  /\ page_url' = Head(queue)
  /\ UNCHANGED <<config, pc, result, enqueued, visited_pages, seen_sets, total_pages,
                 outputs, soup, candidates, ci, resolver_vars, page_hist>>
  /\ UNCHANGED <<run_vars, call_vars>>

\* The page is marked visited and abandoned: its host is outside the allowlist
\* (no fetch), or the fetch raises a transport error.
PageAbandoned ==
  /\ pc = "loop"
  /\ LoopCond
  /\ ~AlreadyVisited(Head(queue))
  /\ queue' = PopLeft(queue)
  /\ page_url' = Head(queue)
  /\ visited_pages' = visited_pages \cup {Head(queue)}
  /\ IF ~HostAllowed(Head(queue))
     THEN UNCHANGED <<page_fetches, page_outcomes>>
     ELSE /\ TransportError \in PageResponses
          /\ page_fetches' = [page_fetches EXCEPT ![Head(queue)] = @ + 1]
          /\ page_outcomes' = [page_outcomes EXCEPT ![Head(queue)] = Append(@, "failed")]
  /\ UNCHANGED <<config, pc, result, enqueued, seen_sets, total_pages, outputs, soup,
                 candidates, ci, resolver_vars, revisit_seen>>
  /\ UNCHANGED <<run_vars, call_vars>>

\* The page is fetched and answers with an error status or a non-HTML type.
PageRejectedStep ==
  /\ pc = "loop"
  /\ LoopCond
  /\ ~AlreadyVisited(Head(queue))
  /\ HostAllowed(Head(queue))
  /\ \E resp \in PageResponses : ~resp.err /\ PageRejected(resp)
  /\ queue' = PopLeft(queue)
  /\ page_url' = Head(queue)
  /\ visited_pages' = visited_pages \cup {Head(queue)}
  /\ page_fetches' = [page_fetches EXCEPT ![Head(queue)] = @ + 1]
  /\ page_outcomes' = [page_outcomes EXCEPT ![Head(queue)] = Append(@, "rejected")]
  /\ UNCHANGED <<config, pc, result, enqueued, seen_sets, total_pages, outputs, soup,
                 candidates, ci, resolver_vars, revisit_seen>>
  /\ UNCHANGED <<run_vars, call_vars>>

\* The page is fetched, counted and parsed; its candidates are extracted.
PageAccepted ==
  /\ pc = "loop"
  /\ LoopCond
  /\ ~AlreadyVisited(Head(queue))
  /\ HostAllowed(Head(queue))
  /\ \E resp \in PageResponses :
       /\ ~resp.err
       /\ ~PageRejected(resp)
       /\ soup' = resp.body
       /\ candidates' = ExtractImageCandidates(resp.body)
  /\ queue' = PopLeft(queue)
  /\ page_url' = Head(queue)
  /\ visited_pages' = visited_pages \cup {Head(queue)}
  /\ total_pages' = total_pages + 1
  /\ ci' = 1
  /\ pc' = "cands"
  /\ page_fetches' = [page_fetches EXCEPT ![Head(queue)] = @ + 1]
  /\ page_outcomes' = [page_outcomes EXCEPT ![Head(queue)] = Append(@, "processed")]
  /\ UNCHANGED <<config, result, enqueued, seen_sets, outputs, resolver_vars,
                 revisit_seen>>
  /\ UNCHANGED <<run_vars, call_vars>>

\* Mutant of LinkEnqueued: links are enqueued whatever their host.
LinkEnqueuedAnyHost(link) == link \notin visited_pages

\* for link in sorted(next_links | content_links): the links that are enqueued
LinkEnqueued(link) == link \notin visited_pages /\ HostAllowed(link)

LinksToEnqueue(links) == SelectSeq(Sorted(links), LinkEnqueued)

\* Mutant of Enqueue: the links are put at the head of the queue.
EnqueueFront(q, links) == links \o q

\* queue.append(link), for each link in turn
Enqueue(q, links) == q \o links

\* All candidates of the page are done: the discovered links are enqueued.
EnqueueLinks ==
  /\ pc = "cands"
  /\ ci > Len(candidates)
  /\ queue' = Enqueue(queue, LinksToEnqueue(soup.links))
  /\ enqueued' = enqueued \cup Range(LinksToEnqueue(soup.links))
  /\ revisit_seen' = (revisit_seen \/ soup.links \cap visited_pages # {})
  /\ pc' = "loop"
  /\ soup' = NoBody
  /\ candidates' = <<>>
  /\ ci' = 1
  /\ returned' = <<>>
  /\ UNCHANGED <<config, result, visited_pages, seen_sets, total_pages, counts, manifest,
                 files, page_url, resolver_vars, page_fetches, page_outcomes>>
  /\ UNCHANGED <<run_vars, call_vars>>

\* first_url = candidate.urls[0]; if first_url in seen_image_urls: continue
SkipSeenImage ==
  /\ pc = "cands"
  /\ ci <= Len(candidates)
  /\ candidates[ci].urls[1] \in seen_image_urls
  /\ ci' = ci + 1
  /\ UNCHANGED <<config, pc, result, queue, enqueued, visited_pages, seen_sets,
                 total_pages, outputs, page_url, soup, candidates, resolver_vars,
                 page_hist>>
  /\ UNCHANGED <<run_vars, call_vars>>

\* Mutant of MarkSeen: the first URL is not recorded.
MarkSeenDropped(urls, first_url) == urls

\* seen_image_urls.add(first_url)
MarkSeen(urls, first_url) == urls \cup {first_url}

\* seen_image_urls.add(first_url); download_image(...) is entered
ClaimCandidate ==
  /\ pc = "cands"
  /\ ci <= Len(candidates)
  /\ candidates[ci].urls[1] \notin seen_image_urls
  /\ seen_image_urls' = MarkSeen(seen_image_urls, candidates[ci].urls[1])
  /\ vi' = 1
  /\ tried' = <<>>
  /\ returned' = <<>>
  /\ pc' = "resolve"
  /\ UNCHANGED <<config, result, queue, enqueued, visited_pages, seen_hashes,
                 total_pages, counts, manifest, files, page_vars, page_hist>>
  /\ UNCHANGED <<run_vars, call_vars>>

\* "image" in content_type
IsImageType(ctype) == ctype \in {"image/jpeg", "image/png"}

\* len(data) < 512 and keyword_match(url, THUMB_HINTS)
ThumbMinBytes == 512

\* Mutant of VariantRejected: the status code is not tested.
VariantRejectedNoStatus(url, resp) ==
  IF resp.err THEN TRUE
  ELSE IF ~IsImageType(resp.ctype) /\ ~LooksLikeImageUrl(url) THEN TRUE
  ELSE IF resp.body.len = 0 THEN TRUE
  ELSE resp.body.len < ThumbMinBytes /\ KeywordMatch(url, THUMB_HINTS)

\* The variant is abandoned (continue): transport error, status >= 400, neither
\* an image type nor an image URL, empty body, tiny body with a thumbnail hint.
VariantRejected(url, resp) ==
  IF resp.err THEN TRUE
  ELSE IF resp.status >= 400 THEN TRUE
  ELSE IF ~IsImageType(resp.ctype) /\ ~LooksLikeImageUrl(url) THEN TRUE
  ELSE IF resp.body.len = 0 THEN TRUE
  ELSE resp.body.len < ThumbMinBytes /\ KeywordMatch(url, THUMB_HINTS)

\* Mutant of RecordDigest: the digest is not recorded.
RecordDigestDropped(hashes, digest) == hashes

\* Mutant of RecordDigest: the set is replaced instead of extended.
RecordDigestReplaces(hashes, digest) == {digest}

\* seen_hashes.add(digest)
RecordDigest(hashes, digest) == hashes \cup {digest}

\* out_path = output_dir / f"{stem}_{digest[:12]}{ext}", under the host folder
OutPath(page, url, digest) == <<HostOf(page), "images", url.path, digest>>

\* The summary counter a status increments.
CountsAfter(status) ==
  IF status = "downloaded" THEN [counts EXCEPT !.downloaded = @ + 1]
  ELSE IF status = "would_download" THEN [counts EXCEPT !.would_download = @ + 1]
  ELSE IF status = "skipped_profile" THEN [counts EXCEPT !.skipped_profile = @ + 1]
  ELSE IF status = "duplicate" THEN [counts EXCEPT !.duplicates = @ + 1]
  ELSE [counts EXCEPT !.failed = @ + 1]

\* Mutant of Row: the image URL written is the last variant of the candidate.
RowLastVariant(candidate, status, saved_path, byte_count, digest) ==
  [page_url |-> page_url, image_url |-> candidate.urls[Len(candidate.urls)],
   status |-> status, saved_path |-> saved_path, bytes |-> byte_count, sha256 |-> digest,
   variant_count |-> Len(candidate.urls)]

\* The manifest row of a candidate; an absent path, byte count or digest is
\* written as an empty cell (<<>>, 0, <<>>).
Row(candidate, status, saved_path, byte_count, digest) ==
  [page_url |-> page_url, image_url |-> candidate.urls[1], status |-> status,
   saved_path |-> saved_path, bytes |-> byte_count, sha256 |-> digest,
   variant_count |-> Len(candidate.urls)]

\* download_image returns: the counter is incremented, the row is written and
\* the for loop of the page goes to the next candidate.
Finish(status, saved_path, byte_count, digest, fetches) ==
  /\ counts' = CountsAfter(status)
  /\ manifest' = Append(manifest, Row(candidates[ci], status, saved_path, byte_count, digest))
  /\ returned' = <<[candidate |-> candidates[ci], tried |-> fetches, status |-> status]>>
  /\ ci' = ci + 1
  /\ vi' = 1
  /\ tried' = <<>>
  /\ pc' = "cands"

Variant == candidates[ci].urls[vi]

\* Mutant of ProfileSkipped: the profile flag is ignored.
ProfileSkippedNever(candidate) == FALSE

\* if candidate.skip_profile
ProfileSkipped(candidate) == candidate.skip_profile

\* if keyword_match(url, skip_url_keywords): return "skipped_custom_keyword"
ResolveSkipKeyword ==
  /\ pc = "resolve"
  /\ KeywordMatch(Variant, skip_keywords)
  /\ Finish("skipped_custom_keyword", <<>>, 0, <<>>, tried)
  /\ UNCHANGED <<config, result, queue, enqueued, visited_pages, seen_sets, total_pages,
                 files, page_url, soup, candidates, page_hist>>
  /\ UNCHANGED <<run_vars, call_vars>>

\* if candidate.skip_profile: return "skipped_profile"
ResolveSkipProfile ==
  /\ pc = "resolve"
  /\ ~KeywordMatch(Variant, skip_keywords)
  /\ ProfileSkipped(candidates[ci])
  /\ Finish("skipped_profile", <<>>, 0, <<>>, tried)
  /\ UNCHANGED <<config, result, queue, enqueued, visited_pages, seen_sets, total_pages,
                 files, page_url, soup, candidates, page_hist>>
  /\ UNCHANGED <<run_vars, call_vars>>

\* The variant may be fetched: neither of the two skips applies.
FetchesVariant ==
  /\ pc = "resolve"
  /\ ~KeywordMatch(Variant, skip_keywords)
  /\ ~ProfileSkipped(candidates[ci])

\* The variant is fetched and abandoned; the loop goes to the next variant.
ResolveNextVariant ==
  /\ FetchesVariant
  /\ vi < Len(candidates[ci].urls)
  /\ \E resp \in ImageResponses :
       /\ VariantRejected(Variant, resp)
       /\ tried' = Append(tried, [url |-> Variant, resp |-> resp])
  /\ vi' = vi + 1
  /\ UNCHANGED <<config, pc, result, queue, enqueued, visited_pages, seen_sets,
                 total_pages, outputs, page_vars, page_hist>>
  /\ UNCHANGED <<run_vars, call_vars>>

\* The last variant is fetched and abandoned: return "failed_all_variants".
ResolveFailedAll ==
  /\ FetchesVariant
  /\ vi = Len(candidates[ci].urls)
  /\ \E resp \in ImageResponses :
       /\ VariantRejected(Variant, resp)
       /\ Finish("failed_all_variants", <<>>, 0, <<>>,
                 Append(tried, [url |-> Variant, resp |-> resp]))
  /\ UNCHANGED <<config, result, queue, enqueued, visited_pages, seen_sets, total_pages,
                 files, page_url, soup, candidates, page_hist>>
  /\ UNCHANGED <<run_vars, call_vars>>

\* Mutant of DryRun: the dry-run flag is ignored.
DryRunIgnored == FALSE

\* if dry_run
DryRun == args.dry_run

\* if digest in seen_hashes: return "duplicate"
ResolveDuplicate ==
  /\ FetchesVariant
  /\ \E resp \in ImageResponses :
       /\ ~VariantRejected(Variant, resp)
       /\ Sha256(resp.body) \in seen_hashes
       /\ Finish("duplicate", <<>>, resp.body.len, Sha256(resp.body),
                 Append(tried, [url |-> Variant, resp |-> resp]))
  /\ UNCHANGED <<config, result, queue, enqueued, visited_pages, seen_sets, total_pages,
                 files, page_url, soup, candidates, page_hist>>
  /\ UNCHANGED <<run_vars, call_vars>>

\* if dry_run: seen_hashes.add(digest); return "would_download"
ResolveWouldDownload ==
  /\ FetchesVariant
  /\ DryRun
  /\ \E resp \in ImageResponses :
       /\ ~VariantRejected(Variant, resp)
       /\ Sha256(resp.body) \notin seen_hashes
       /\ seen_hashes' = RecordDigest(seen_hashes, Sha256(resp.body))
       /\ Finish("would_download", <<>>, resp.body.len, Sha256(resp.body),
                 Append(tried, [url |-> Variant, resp |-> resp]))
  /\ UNCHANGED <<config, result, queue, enqueued, visited_pages, seen_image_urls,
                 total_pages, files, page_url, soup, candidates, page_hist>>
  /\ UNCHANGED <<run_vars, call_vars>>

\* out_path.write_bytes(data); seen_hashes.add(digest); return "downloaded"
ResolveDownloaded ==
  /\ FetchesVariant
  /\ ~DryRun
  /\ \E resp \in ImageResponses :
       /\ ~VariantRejected(Variant, resp)
       /\ Sha256(resp.body) \notin seen_hashes
       /\ seen_hashes' = RecordDigest(seen_hashes, Sha256(resp.body))
       /\ files' = files \cup {OutPath(page_url, Variant, Sha256(resp.body))}
       /\ Finish("downloaded", OutPath(page_url, Variant, Sha256(resp.body)),
                 resp.body.len, Sha256(resp.body),
                 Append(tried, [url |-> Variant, resp |-> resp]))
  /\ UNCHANGED <<config, result, queue, enqueued, visited_pages, seen_image_urls,
                 total_pages, page_url, soup, candidates, page_hist>>
  /\ UNCHANGED <<run_vars, call_vars>>

\* The summary printed at the end of the crawl, one line per counter.
Summary ==
  [pages_crawled |-> total_pages, images_downloaded |-> counts.downloaded,
   images_dry_run_only |-> counts.would_download,
   skipped_profile_images |-> counts.skipped_profile,
   duplicates_skipped |-> counts.duplicates, failed_unsupported |-> counts.failed]

\* The line of the summary that counts a status (lines 602-611).
SummaryCount(status) ==
  IF status = "downloaded" THEN Summary.images_downloaded
  ELSE IF status = "would_download" THEN Summary.images_dry_run_only
  ELSE IF status = "skipped_profile" THEN Summary.skipped_profile_images
  ELSE IF status = "duplicate" THEN Summary.duplicates_skipped
  ELSE Summary.failed_unsupported

Next ==
  \/ Start
  \/ LoopExit
  \/ SkipVisited
  \/ PageAbandoned
  \/ PageRejectedStep
  \/ PageAccepted
  \/ EnqueueLinks
  \/ SkipSeenImage
  \/ ClaimCandidate
  \/ ResolveSkipKeyword
  \/ ResolveSkipProfile
  \/ ResolveNextVariant
  \/ ResolveFailedAll
  \/ ResolveDuplicate
  \/ ResolveWouldDownload
  \/ ResolveDownloaded

Spec == Init /\ [][Next]_vars
FairSpec == Spec /\ WF_vars(Next)

(***************************************************************************)
(* The variant resolver, guess_fullsize_variants.  A URL with a query is   *)
(* the record of a URL with one more field, the sequence of its            *)
(* parameters; a parameter is written key=value, or key alone.             *)
(***************************************************************************)
Param(k, v, eq) == [key |-> k, val |-> v, eq |-> eq]

UQ(h, p, q) == [scheme |-> "http", host |-> h, path |-> p, query |-> q]

URL_QUERY_THUMB_KEYS == {"w", "h", "width", "height", "size", "thumb", "thumbnail",
                         "fit", "crop", "quality"}

\* "&".join(f"{k}={v}" if v != "" else k for k, v in kept)
Rebuilt(kept) == [i \in DOMAIN kept |-> Param(kept[i].key, kept[i].val, kept[i].val # "")]

\* strip_thumbnail_query_params(url)
StripThumbnailQueryParams(url) ==
  IF url.query = <<>> THEN url
  ELSE LET Kept(prm) == Lower(prm.key) \notin URL_QUERY_THUMB_KEYS
       IN [url EXCEPT !.query = Rebuilt(SelectSeq(url.query, Kept))]

\* path.replace("/" + dir + "/", "/"), scanning from token i
RECURSIVE ReplaceDirFrom(_, _, _)
ReplaceDirFrom(path, dir, i) ==
  IF i > Len(path) THEN <<>>
  ELSE IF i + 2 <= Len(path) /\ path[i] = "/" /\ path[i + 1] = dir /\ path[i + 2] = "/"
  THEN <<"/">> \o ReplaceDirFrom(path, dir, i + 3)
  ELSE <<path[i]>> \o ReplaceDirFrom(path, dir, i + 1)

ReplaceDir(path, dir) == ReplaceDirFrom(path, dir, 1)

\* The first (last) character of the token is a word character of the regular
\* expressions: "_" is one, "/", "-" and "." are not.
StartsWord(t) == t \notin {"/", "-"} \cup ImageExts
EndsWord(t) == t \notin {"/", "-"}

\* re.sub(r"(?i)([_-])(thumb|thumbnail|small|sm|tn)\b", "", path), from token i
RECURSIVE SubSuffixWordFrom(_, _)
SubSuffixWordFrom(path, i) ==
  IF i > Len(path) THEN <<>>
  ELSE IF /\ i + 1 <= Len(path)
          /\ path[i] \in {"_", "-"}
          /\ Lower(path[i + 1]) \in {"thumb", "thumbnail", "small", "sm", "tn"}
          /\ (IF i + 2 <= Len(path) THEN ~StartsWord(path[i + 2]) ELSE TRUE)
  THEN SubSuffixWordFrom(path, i + 2)
  ELSE <<path[i]>> \o SubSuffixWordFrom(path, i + 1)

\* re.sub(r"(?i)\b(thumb|thumbnail|small)[_-]", "", path), from token i
RECURSIVE SubPrefixWordFrom(_, _)
SubPrefixWordFrom(path, i) ==
  IF i > Len(path) THEN <<>>
  ELSE IF /\ i + 1 <= Len(path)
          /\ Lower(path[i]) \in {"thumb", "thumbnail", "small"}
          /\ path[i + 1] \in {"_", "-"}
          /\ (IF i > 1 THEN ~EndsWord(path[i - 1]) ELSE TRUE)
  THEN SubPrefixWordFrom(path, i + 2)
  ELSE <<path[i]>> \o SubPrefixWordFrom(path, i + 1)

\* The rewrites of the path, in the order the source lists them.
PathRewrites(path) ==
  <<ReplaceDir(path, "thumb"), ReplaceDir(path, "thumbs"), ReplaceDir(path, "thumbnail"),
    SubSuffixWordFrom(path, 1), SubPrefixWordFrom(path, 1)>>

\* path_variants = {...}: a set
PathVariants(path) == Range(PathRewrites(path))

\* The orders in which a for loop can iterate over a set of strings: the order
\* follows the hashes of the strings, which change from process to process.
IterationOrders(S) ==
  {s \in [1..Cardinality(S) -> S] : \A i, j \in DOMAIN s : i # j => s[i] # s[j]}

\* The order-preserving de-duplication at the end of guess_fullsize_variants.
RECURSIVE DedupedFrom(_, _, _)
DedupedFrom(variants, i, seen) ==
  IF i > Len(variants) THEN <<>>
  ELSE IF variants[i] \in seen THEN DedupedFrom(variants, i + 1, seen)
  ELSE <<variants[i]>> \o DedupedFrom(variants, i + 1, seen \cup {variants[i]})

\* guess_fullsize_variants(url), the for loop over path_variants taking the
\* paths in the given order.
GuessFullsizeVariants(url, order) ==
  LET cleaned_query == StripThumbnailQueryParams(url)
      Rewritten(p) == p # <<>> /\ p # url.path
      kept == SelectSeq(order, Rewritten)
  IN DedupedFrom(<<url>>
                   \o (IF cleaned_query # url THEN <<cleaned_query>> ELSE <<>>)
                   \o [i \in DOMAIN kept |-> [url EXCEPT !.path = kept[i]]],
                 1, {})

(***************************************************************************)
(* Crawls of a one-page site.  The page holds one image element, img_src;  *)
(* the site answers every image URL by the response fetch gives it, the    *)
(* same in every crawl.  A crawl expands the candidate of the image with   *)
(* guess_fullsize_variants, resolves it with download_image and writes its *)
(* manifest row.                                                           *)
(***************************************************************************)
\* The crawls of the site that are compared.
MaxRuns == 2

DogBytes == [id |-> "dog", len |-> 3000]

ImgSrcs ==
  { UQ("a.example", <<"/", "img", "/", "cat", ".jpg">>, <<>>),
    UQ("a.example", <<"/", "img", "/", "cat", "-", "thumb", ".jpg">>, <<>>),
    UQ("a.example", <<"/", "thumb", "/", "cat", "-", "thumb", ".jpg">>, <<>>),
    UQ("a.example", <<"/", "thumbs", "/", "small", "_", "cat", "_", "tn", ".jpg">>,
       <<Param("W", "100", TRUE), Param("id", "3", TRUE)>>),
    UQ("a.example", <<"/", "img", "/", "Thumb", "-", "cat", ".jpg">>,
       <<Param("size", "2", TRUE)>>),
    UQ("a.example", <<"/", "img", "/", "cat", ".jpg">>, <<Param("a", "", TRUE)>>) }

\* The URLs guess_fullsize_variants can return for url.
VariantUrls(url) ==
  UNION {Range(GuessFullsizeVariants(url, order)) :
           order \in IterationOrders(PathVariants(url.path))}

SiteResponses ==
  {Resp(404, "image/jpeg", ErrorPage), Resp(200, "image/jpeg", CatBytes),
   Resp(200, "image/jpeg", DogBytes)}

\* download_image(session, candidate, ...) from variant i on, session.get
\* answering by fetch: its return value and the URLs it fetched.
RECURSIVE DownloadImage(_, _, _)
DownloadImage(candidate, i, fetched) ==
  LET url == candidate.urls[i]
      Returns(status, saved_path, byte_count, digest, urls) ==
        [status |-> status, saved_path |-> saved_path, bytes |-> byte_count,
         sha256 |-> digest, fetched |-> urls]
  IN IF i > Len(candidate.urls)
     THEN Returns("failed_all_variants", <<>>, 0, <<>>, fetched)
     ELSE IF KeywordMatch(url, skip_keywords)
     THEN Returns("skipped_custom_keyword", <<>>, 0, <<>>, fetched)
     ELSE IF candidate.skip_profile
     THEN Returns("skipped_profile", <<>>, 0, <<>>, fetched)
     ELSE IF VariantRejected(url, fetch[url])
     THEN DownloadImage(candidate, i + 1, Append(fetched, url))
     ELSE IF Sha256(fetch[url].body) \in seen_hashes
     THEN Returns("duplicate", <<>>, fetch[url].body.len, Sha256(fetch[url].body),
                  Append(fetched, url))
     ELSE IF DryRun
     THEN Returns("would_download", <<>>, fetch[url].body.len, Sha256(fetch[url].body),
                  Append(fetched, url))
     ELSE Returns("downloaded", OutPath(P1, url, Sha256(fetch[url].body)),
                  fetch[url].body.len, Sha256(fetch[url].body), Append(fetched, url))

\* One crawl of the site: the page P1 is fetched, its image is expanded and
\* resolved, and the row is written.
CrawlSite(order) ==
  LET candidate == Cand(GuessFullsizeVariants(img_src, order), FALSE)
      out == DownloadImage(candidate, 1, <<>>)
  IN [variants |-> candidate.urls,
      fetched |-> out.fetched,
      row |-> [page_url |-> P1, image_url |-> candidate.urls[1], status |-> out.status,
               saved_path |-> out.saved_path, bytes |-> out.bytes, sha256 |-> out.sha256,
               variant_count |-> Len(candidate.urls)]]

crawl_vars == <<args, pc, result, allowed_hosts, skip_keywords, queue, visited_pages,
                seen_image_urls, seen_hashes, total_pages, counts, manifest, files,
                page_url, soup, candidates, ci, vi, tried, page_fetches,
                page_outcomes, enqueued, revisit_seen, returned>>

\* The command line of the crawls of the site.
SiteArgs ==
  [start_urls |-> <<RawUrl("http", "a.example", <<"/", "p1">>, "")>>, max_pages |-> 1,
   allow_cross_domain |-> FALSE, dry_run |-> FALSE, skip_url_keyword |-> <<>>]

RunsInit ==
  /\ CrawlEntered(SiteArgs)
  /\ img_src \in ImgSrcs
  /\ fetch \in [VariantUrls(img_src) -> SiteResponses]
  /\ runs = <<>>
  /\ fn_call = None
  /\ fn_ret = <<>>

\* The site is crawled once more, by a new process.
RunCrawl ==
  /\ Len(runs) < MaxRuns
  /\ \E order \in IterationOrders(PathVariants(img_src.path)) :
       runs' = Append(runs, CrawlSite(order))
  /\ UNCHANGED <<crawl_vars, img_src, fetch, call_vars>>

RunsNext == RunCrawl

RunsSpec == RunsInit /\ [][RunsNext]_vars

(***************************************************************************)
(* Calls of the pure functions of the source, each on an argument of its   *)
(* own: extract_image_candidates on a parsed page, parse_srcset_best on a  *)
(* srcset value, guess_fullsize_variants on a URL.                         *)
(***************************************************************************)
\* The elements of a kind on a page are at most this many.
MaxElems == 2
\* The comma-separated chunks of a srcset value are at most this many.
MaxChunks == 2

SeqsUpTo(S, n) == UNION {[1..k -> S] : k \in 0..n}

\* The candidates the loop over the image elements can append (lines 309-341)
\* and those the loop over the plain image anchors can (lines 343-355), the
\* latter never flagged as profile images.
ImgCands ==
  {Cand(<<ImgFull>>, FALSE), Cand(<<ImgFull, ImgCdn>>, TRUE), Cand(<<ImgCdn>>, TRUE),
   Cand(<<ImgThumb, ImgFull>>, FALSE)}
AnchorCands ==
  {Cand(<<ImgFull>>, FALSE), Cand(<<ImgCdn>>, FALSE), Cand(<<ImgThumb, ImgFull>>, FALSE)}

\* A parsed page: what its image elements and its anchors give, in document
\* order.
ParsedPages == [imgs : SeqsUpTo(ImgCands, MaxElems), anchors : SeqsUpTo(AnchorCands, MaxElems)]

\* out, before the final de-duplication: the image elements, then the anchors
CandidatesOut(page) == page.imgs \o page.anchors

FnCall(f, arg) == [fn |-> f, arg |-> arg]

(* A srcset value is the sequence of its comma-separated chunks, a chunk    *)
(* the sequence of its whitespace-separated bits: the raw URL, then the    *)
(* descriptor token.  A descriptor token is a number literal and a suffix; *)
(* a literal is a decimal (sign, digits, count of digits after the point), *)
(* "inf", or a word that is no number.                                     *)
Dec(neg, mant, frac) == [kind |-> "dec", neg |-> neg, mant |-> mant, frac |-> frac]
Literals ==
  {Dec(FALSE, 1, 0), Dec(FALSE, 2, 0), Dec(FALSE, 400, 0), Dec(TRUE, 5, 0),
   Dec(FALSE, 1, 4), Dec(FALSE, 5, 4), [kind |-> "inf"], [kind |-> "word"]}

Token(lit, suffix) == [num |-> lit, suffix |-> suffix]
\* 1x 2x 2X 400w -5w 0.0001x 0.0005x infx abcw 400h
Tokens ==
  {Token(Dec(FALSE, 1, 0), "x"), Token(Dec(FALSE, 2, 0), "x"), Token(Dec(FALSE, 2, 0), "X"),
   Token(Dec(FALSE, 400, 0), "w"), Token(Dec(TRUE, 5, 0), "w"),
   Token(Dec(FALSE, 1, 4), "x"), Token(Dec(FALSE, 5, 4), "x"),
   Token([kind |-> "inf"], "x"), Token([kind |-> "word"], "w"),
   Token(Dec(FALSE, 400, 0), "h")}

SrcsetRaws ==
  {RawUrl("http", "a.example", ImgFull.path, ""), RawUrl("http", "cdn.example", ImgCdn.path, ""),
   RawUrl("mailto", "", ImgFull.path, "")}

\* chunk.strip().split(): nothing, a URL, or a URL and a descriptor
Chunks == {<<>>} \cup {<<raw>> : raw \in SrcsetRaws}
            \cup {<<raw, token>> : raw \in SrcsetRaws, token \in Tokens}

Srcsets == SeqsUpTo(Chunks, MaxChunks)

RECURSIVE Pow10(_)
Pow10(n) == IF n = 0 THEN 1 ELSE 10 * Pow10(n - 1)

Returned(v) == [error |-> "", value |-> v]
Raised(e) == [error |-> e, value |-> 0]

\* int(s): a literal with a point, "inf" and a word are no integer literals
ParseInt(lit) ==
  IF lit.kind = "dec"
  THEN IF lit.frac = 0 THEN Returned(IF lit.neg THEN -lit.mant ELSE lit.mant)
       ELSE Raised("ValueError")
  ELSE Raised("ValueError")

\* int(float(s) * 1000): truncated towards zero; int(inf) is an OverflowError
ParseScaled(lit) ==
  IF lit.kind = "dec"
  THEN LET q == (lit.mant * 1000) \div Pow10(lit.frac)
       IN Returned(IF lit.neg THEN -q ELSE q)
  ELSE IF lit.kind = "inf" THEN Raised("OverflowError")
  ELSE Raised("ValueError")

\* The score of a chunk (lines 218-230); only ValueError is caught.
SrcsetScore(bits) ==
  IF Len(bits) > 1
  THEN LET token == bits[2]
           parsed == IF Lower(token.suffix) = "w" THEN ParseInt(token.num)
                     ELSE IF Lower(token.suffix) = "x" THEN ParseScaled(token.num)
                     ELSE Returned(1)
       IN IF parsed.error = "ValueError" THEN Returned(1) ELSE parsed
  ELSE Returned(1)

RECURSIVE ParseSrcsetFrom(_, _, _, _)
ParseSrcsetFrom(srcset, i, best_url, best_score) ==
  IF i > Len(srcset) THEN Returned(best_url)
  ELSE LET bits == srcset[i]
           candidate == IF bits = <<>> THEN None ELSE NormalizeUrl(bits[1])
           score == SrcsetScore(bits)
       IN IF bits = <<>> \/ candidate = None
          THEN ParseSrcsetFrom(srcset, i + 1, best_url, best_score)
          ELSE IF score.error # "" THEN score
          ELSE IF score.value > best_score
          THEN ParseSrcsetFrom(srcset, i + 1, candidate, score.value)
          ELSE ParseSrcsetFrom(srcset, i + 1, best_url, best_score)

\* parse_srcset_best(srcset, base_url): the value returned, or the exception
ParseSrcsetBest(srcset) == ParseSrcsetFrom(srcset, 1, None, -1)

\* The URLs the variant resolver is called on: those of ImgSrcs and further
\* query strings on the path /img/cat.jpg and on a path with a thumbnail token.
ResolverUrls ==
  ImgSrcs \cup
  { UQ("a.example", p, q) :
      p \in {<<"/", "img", "/", "cat", ".jpg">>, <<"/", "img", "/", "cat", "_", "small", ".jpg">>},
      q \in {<<Param("id", "3", TRUE)>>,
             <<Param("w", "100", TRUE)>>,
             <<Param("id", "3", TRUE), Param("Quality", "80", TRUE)>>,
             <<Param("w", "100", TRUE), Param("a", "", TRUE)>>,
             <<Param("flag", "", FALSE), Param("h", "", FALSE)>>,
             <<Param("crop", "1", TRUE), Param("fit", "", TRUE)>>} }

FnCalls ==
  {FnCall("extract_image_candidates", page) : page \in ParsedPages}
    \cup {FnCall("parse_srcset_best", [srcset |-> srcset]) : srcset \in Srcsets}
    \cup {FnCall("guess_fullsize_variants", [url |-> url]) : url \in ResolverUrls}

FnInit ==
  /\ CrawlEntered(SiteArgs)
  /\ img_src = None
  /\ fetch = <<>>
  /\ runs = <<>>
  /\ fn_call \in FnCalls
  /\ fn_ret = <<>>

\* extract_image_candidates(soup, page_url) returns
CallExtractImageCandidates ==
  /\ fn_call.fn = "extract_image_candidates"
  /\ fn_ret = <<>>
  /\ fn_ret' = <<ExtractImageCandidates([out |-> CandidatesOut(fn_call.arg)])>>
  /\ UNCHANGED <<crawl_vars, run_vars, fn_call>>

\* parse_srcset_best(srcset, base_url) returns or raises
CallParseSrcsetBest ==
  /\ fn_call.fn = "parse_srcset_best"
  /\ fn_ret = <<>>
  /\ fn_ret' = <<ParseSrcsetBest(fn_call.arg.srcset)>>
  /\ UNCHANGED <<crawl_vars, run_vars, fn_call>>

\* guess_fullsize_variants(url) returns, the set of path rewrites iterated
\* in one of its orders
CallGuessFullsizeVariants ==
  /\ fn_call.fn = "guess_fullsize_variants"
  /\ fn_ret = <<>>
  /\ \E order \in IterationOrders(PathVariants(fn_call.arg.url.path)) :
       fn_ret' = <<GuessFullsizeVariants(fn_call.arg.url, order)>>
  /\ UNCHANGED <<crawl_vars, run_vars, fn_call>>

FnNext ==
  \/ CallExtractImageCandidates
  \/ CallParseSrcsetBest
  \/ CallGuessFullsizeVariants

FnSpec == FnInit /\ [][FnNext]_vars

(***************************************************************************)
(* Properties.                                                             *)
(***************************************************************************)
Terminated == pc \in {"done", "aborted"}

\* The URLs handed to the fetch capability by the running or the last
\* download_image call.
ImageFetches ==
  {tried[i].url : i \in DOMAIN tried}
    \cup UNION {{r.tried[i].url : i \in DOMAIN r.tried} : r \in Range(returned)}

PagesFetched == {u \in PageUrls : page_fetches[u] > 0}

\* C1 (as stated): with cross-domain mode disabled, every URL handed to the
\* fetch capability, page fetches and image-variant fetches alike, has a host
\* of the allowlist.
C1_AllFetchesOnAllowlist ==
  ~args.allow_cross_domain =>
    \A u \in PagesFetched \cup ImageFetches : HostOf(u) \in allowed_hosts

\* C1 (amended): with cross-domain mode disabled, every page URL fetched by
\* the traversal loop has a host of the allowlist derived from the start URLs.
C1_PageFetchesOnAllowlist ==
  ~args.allow_cross_domain => \A u \in PagesFetched : HostOf(u) \in allowed_hosts

\* An off-domain link was discovered together with an in-domain one, which was
\* fetched while the off-domain one never entered the frontier.
C1_Witness ==
  /\ ~args.allow_cross_domain
  /\ pc = "done"
  /\ page_fetches[PU] = 1
  /\ PB \notin enqueued
  /\ page_fetches[PB] = 0

\* C2: during one crawl no page URL is fetched twice by the traversal.
C2_NoPageFetchedTwice == \A u \in PageUrls : page_fetches[u] <= 1

\* A fetched page is again in the frontier, and a discovered link pointed at a
\* visited page.
C2_Witness ==
  /\ revisit_seen
  /\ \E i \in DOMAIN queue : queue[i] \in visited_pages /\ page_fetches[queue[i]] = 1

\* C3: the crawl terminates, whatever the link graph (cycles and self links
\* included).
C3_Terminates == <>Terminated

\* The crawl ended after a page linked to a visited page (itself or an earlier one).
C3_Witness == pc = "done" /\ revisit_seen /\ total_pages >= 2

Processed == {u \in PageUrls : "processed" \in Range(page_outcomes[u])}

\* C4: the number of crawled pages never exceeds max_pages and counts exactly
\* the pages fetched with status < 400 and an HTML-like type; once the count
\* has reached max_pages the loop does nothing but exit, even when the
\* frontier is not empty.
C4_PageBudget ==
  /\ [](total_pages <= args.max_pages /\ total_pages = Cardinality(Processed))
  /\ [][pc = "loop" /\ total_pages >= args.max_pages
          => pc' = "done" /\ queue' = queue /\ page_fetches' = page_fetches]_vars

\* The loop has ended at the cap with a non-empty frontier, after a page that
\* failed or was rejected.
C4_Witness ==
  /\ pc = "done"
  /\ args.max_pages > 0
  /\ total_pages = args.max_pages
  /\ queue # <<>>
  /\ \E u \in PageUrls : page_outcomes[u] \in {<<"failed">>, <<"rejected">>}

Outcomes == {"downloaded", "would_download", "duplicate", "skipped_profile",
             "skipped_custom_keyword", "failed_all_variants"}

Recording == {"downloaded", "would_download"}

\* C6: of two candidates whose accepted variants return byte-identical content
\* the first yields downloaded (would_download in dry-run mode) and every later
\* one yields duplicate; so no digest is recorded by more than one downloaded
\* or would_download row.
C6_SameBytesDownloadedThenDuplicate ==
  \A j \in DOMAIN manifest :
    manifest[j].sha256 # <<>> =>
      IF \E i \in 1..(j - 1) : manifest[i].sha256 = manifest[j].sha256
      THEN manifest[j].status = "duplicate"
      ELSE manifest[j].status = (IF args.dry_run THEN "would_download" ELSE "downloaded")

\* Two rows of different image URLs carry the same digest: downloaded, then
\* duplicate.
C6_Witness ==
  \E i, j \in DOMAIN manifest :
    /\ i < j
    /\ manifest[i].image_url # manifest[j].image_url
    /\ manifest[i].sha256 = manifest[j].sha256
    /\ manifest[i].status = "downloaded"
    /\ manifest[j].status = "duplicate"

LastRow == manifest[Len(manifest)]

\* C7: SeenContentHashes changes only when a resolver call returns
\* would_download or downloaded, and then by exactly the digest of the chosen
\* bytes; every other outcome leaves it unchanged, and it never shrinks.
C7_SeenHashesFrame ==
  /\ [][seen_hashes \subseteq seen_hashes']_vars
  /\ [][manifest' # manifest =>
          /\ Len(manifest') = Len(manifest) + 1
          /\ IF manifest'[Len(manifest')].status \in Recording
             THEN /\ manifest'[Len(manifest')].sha256 \notin seen_hashes
                  /\ seen_hashes' = seen_hashes \cup {manifest'[Len(manifest')].sha256}
                  /\ returned'[1].tried[Len(returned'[1].tried)].resp.body.len
                       = manifest'[Len(manifest')].bytes
                  /\ Sha256(returned'[1].tried[Len(returned'[1].tried)].resp.body)
                       = manifest'[Len(manifest')].sha256
             ELSE seen_hashes' = seen_hashes]_vars
  /\ [][manifest' = manifest => seen_hashes' = seen_hashes]_vars

\* After a call recorded a digest, a later call returned duplicate and left
\* the set as it was.
C7_Witness ==
  /\ Cardinality(seen_hashes) = 1
  /\ returned # <<>>
  /\ returned[1].status = "duplicate"
  /\ LastRow.sha256 \in seen_hashes

\* C8 (as stated): a profile-flagged candidate always yields skipped_profile,
\* without any fetch.
C8_ProfileAlwaysSkippedProfile ==
  \A r \in Range(returned) :
    r.candidate.skip_profile => r.status = "skipped_profile" /\ r.tried = <<>>

\* C8 (amended): a profile-flagged candidate is never fetched and never ends
\* as downloaded, would_download or duplicate; it yields skipped_profile,
\* unless its first variant matches a skip keyword, and then
\* skipped_custom_keyword.
C8_ProfileNeverFetched ==
  /\ pc = "resolve" /\ candidates[ci].skip_profile => tried = <<>> /\ vi = 1
  /\ \A r \in Range(returned) :
       r.candidate.skip_profile =>
         /\ r.tried = <<>>
         /\ r.status = (IF KeywordMatch(r.candidate.urls[1], skip_keywords)
                        THEN "skipped_custom_keyword" ELSE "skipped_profile")

\* A profile-flagged candidate returned skipped_profile while skip keywords
\* were configured.
C8_Witness ==
  /\ skip_keywords # {}
  /\ returned # <<>>
  /\ returned[1].candidate.skip_profile
  /\ returned[1].status = "skipped_profile"
  /\ LastRow.status = "skipped_profile"

\* The rejections of a variant, as the claim lists them.
C9_Rejects(f) ==
  IF f.resp.err THEN TRUE
  ELSE \/ f.resp.status >= 400
       \/ (f.resp.ctype \notin {"image/jpeg", "image/png"} /\ ~LooksLikeImageUrl(f.url))
       \/ f.resp.body.len = 0
       \/ (f.resp.body.len < 512 /\ THUMB_HINTS \cap UrlTokens(f.url) # {})

\* The fetches are the first variants of the list, in list order, and all but
\* the last n of them were rejected.
C9_InOrder(urls, fetches, n) ==
  /\ Len(fetches) <= Len(urls)
  /\ \A i \in DOMAIN fetches : fetches[i].url = urls[i]
  /\ \A i \in 1..(Len(fetches) - n) : C9_Rejects(fetches[i])

\* C9: the variants are fetched strictly in list order, variant i+1 only after
\* variant i was rejected, and nothing is fetched after the outcome is decided;
\* when the first of two variants returns 404 and the second a 2000-byte image
\* not seen before, the outcome is downloaded and the row records 2 variants.
C9_VariantsInOrder ==
  /\ pc = "resolve" =>
       /\ Len(tried) = vi - 1
       /\ C9_InOrder(candidates[ci].urls, tried, 0)
  /\ pc # "resolve" => tried = <<>>
  /\ \A r \in Range(returned) :
       /\ r.status \in Outcomes
       /\ r.status \in {"downloaded", "would_download", "duplicate"} =>
            /\ r.tried # <<>>
            /\ C9_InOrder(r.candidate.urls, r.tried, 1)
            /\ ~C9_Rejects(r.tried[Len(r.tried)])
       /\ r.status = "failed_all_variants" =>
            /\ Len(r.tried) = Len(r.candidate.urls)
            /\ C9_InOrder(r.candidate.urls, r.tried, 0)
       /\ r.status \in {"skipped_profile", "skipped_custom_keyword"} =>
            /\ Len(r.tried) < Len(r.candidate.urls)
            /\ C9_InOrder(r.candidate.urls, r.tried, 0)
       /\ ( /\ ~args.dry_run
            /\ Len(r.candidate.urls) = 2
            /\ Len(r.tried) = 2
            /\ ~r.tried[1].resp.err
            /\ r.tried[1].resp.status = 404
            /\ r.tried[2].resp = Resp(200, "image/jpeg", CatBytes)
            /\ \A i \in 1..(Len(manifest) - 1) : manifest[i].sha256 # Sha256(CatBytes) )
          => /\ r.status = "downloaded"
             /\ LastRow.status = "downloaded"
             /\ LastRow.variant_count = 2

\* The thumbnail URL returned 404 and its stripped variant a 2000-byte image:
\* downloaded, with 2 variants recorded.
C9_Witness ==
  /\ returned # <<>>
  /\ returned[1].candidate.urls = <<ImgThumb, ImgFull>>
  /\ Len(returned[1].tried) = 2
  /\ ~returned[1].tried[1].resp.err
  /\ returned[1].tried[1].resp.status = 404
  /\ returned[1].tried[2].resp = Resp(200, "image/jpeg", CatBytes)
  /\ returned[1].status = "downloaded"
  /\ LastRow.variant_count = 2

\* The rows written for the page being processed.
IsPageRow(row) == row.page_url = page_url
PageRows == SelectSeq(manifest, IsPageRow)

\* The candidates of the page already passed by the for loop.
Passed == SubSeq(candidates, 1, ci - 1)

\* C10 (as stated): every candidate the extractor produced on the page yields
\* exactly one manifest row.
C10_EveryCandidateOneRow == pc = "cands" => Len(PageRows) = Len(Passed)

\* The candidates passed whose first URL was not resolved on an earlier page.
ResolvedEarlier(c) ==
  \E i \in DOMAIN manifest : manifest[i].image_url = c.urls[1] /\ ~IsPageRow(manifest[i])
IsFresh(c) == ~ResolvedEarlier(c)
FreshPassed == SelectSeq(Passed, IsFresh)

\* C10 (amended): every candidate of the page whose first URL was not resolved
\* earlier in the crawl is consumed by the resolver exactly once and yields
\* exactly one row, in order, with one of the six outcomes; a candidate whose
\* first URL was resolved earlier is skipped and yields no further row.
C10_FreshCandidateOneRow ==
  pc = "cands" =>
    /\ Len(PageRows) = Len(FreshPassed)
    /\ \A k \in DOMAIN PageRows :
         /\ PageRows[k].image_url = FreshPassed[k].urls[1]
         /\ PageRows[k].variant_count = Len(FreshPassed[k].urls)
         /\ PageRows[k].status \in Outcomes
    /\ \A k \in DOMAIN Passed :
         Cardinality({i \in DOMAIN manifest : manifest[i].image_url = Passed[k].urls[1]}) = 1

\* A page is done with two candidates: one was resolved, the other skipped
\* because its first URL was resolved on an earlier page.
C10_Witness ==
  /\ pc = "cands"
  /\ ci > Len(candidates)
  /\ Len(candidates) = 2
  /\ Len(PageRows) = 1

\* C11: each first-preference image URL is resolved at most once in a crawl:
\* it is in SeenImageURLs before the resolution starts, no two manifest rows
\* share an image URL, and a first URL whose resolution ended in
\* failed_all_variants is not resolved again on a later page.
C11_FirstUrlResolvedOnce ==
  /\ pc = "resolve" =>
       /\ candidates[ci].urls[1] \in seen_image_urls
       /\ \A i \in DOMAIN manifest : manifest[i].image_url # candidates[ci].urls[1]
  /\ \A i \in DOMAIN manifest : manifest[i].image_url \in seen_image_urls
  /\ \A i, j \in DOMAIN manifest : i # j => manifest[i].image_url # manifest[j].image_url
  /\ Cardinality(seen_image_urls) = Len(manifest) + (IF pc = "resolve" THEN 1 ELSE 0)

\* A candidate of a later page was passed over without a row: its first URL
\* had ended in failed_all_variants on an earlier page.
C11_Witness ==
  /\ pc = "cands"
  /\ ci > 1
  /\ \E i \in DOMAIN manifest :
       /\ manifest[i].image_url = candidates[ci - 1].urls[1]
       /\ manifest[i].page_url # page_url
       /\ manifest[i].status = "failed_all_variants"
  /\ \A i \in DOMAIN manifest :
       manifest[i].page_url = page_url => manifest[i].image_url # candidates[ci - 1].urls[1]

IsPrefix(s, t) == Len(s) <= Len(t) /\ SubSeq(t, 1, Len(s)) = s

\* C12: the manifest is append-only and its rows are in processing order: a
\* row once written is never changed or removed; a step writes at most one
\* row, for the candidate at hand of the page at hand, and the candidates of a
\* page are passed in extraction order; pages are taken from the head of the
\* frontier and links are added at its tail (FIFO), so the rows of one page
\* are contiguous and the rows of an earlier page precede those of a later one.
C12_ManifestAppendOnlyInOrder ==
  /\ [][manifest' # manifest =>
          /\ manifest' = Append(manifest, manifest'[Len(manifest')])
          /\ manifest'[Len(manifest')].page_url = page_url
          /\ manifest'[Len(manifest')].image_url = candidates[ci].urls[1]
          /\ ci' = ci + 1
          /\ candidates' = candidates]_vars
  /\ [][(pc \in {"cands", "resolve"} /\ pc' \in {"cands", "resolve"}) =>
          /\ ci' \in {ci, ci + 1}
          /\ candidates' = candidates
          /\ page_url' = page_url]_vars
  /\ [][queue' # queue =>
          \/ (queue # <<>> /\ queue' = Tail(queue) /\ page_url' = Head(queue))
          \/ (IsPrefix(queue, queue') /\ page_url' = page_url)]_vars
  /\ [][page_url' # page_url => queue # <<>> /\ page_url' = Head(queue)]_vars
  /\ [](\A i, j \in DOMAIN manifest :
          i < j /\ manifest[i].page_url = manifest[j].page_url =>
            \A k \in i..j : manifest[k].page_url = manifest[i].page_url)
  /\ [](pc \in {"cands", "resolve"} =>
          \A i, j \in DOMAIN manifest :
            i < j /\ manifest[i].page_url = page_url => manifest[j].page_url = page_url)

\* Two rows of the first page are followed by a row of a page crawled later.
C12_Witness ==
  /\ Len(manifest) >= 3
  /\ manifest[1].page_url = manifest[2].page_url
  /\ manifest[2].page_url # manifest[3].page_url
  /\ manifest[3].page_url = page_url

\* C13: the crawl is deterministic: two crawls with the same configuration and
\* the same response for every URL write the same manifest, and try the
\* variants of each candidate in the same order.
C13_RunsAgree ==
  \A i, j \in DOMAIN runs :
    /\ runs[i].row = runs[j].row
    /\ runs[i].fetched = runs[j].fetched

Accepted == {"downloaded", "would_download", "duplicate"}

\* C14 (as stated): in a row whose outcome is downloaded, would_download or
\* duplicate the image URL is the variant that was chosen, the one whose bytes
\* were hashed, also when it is not the first variant.
C14_RowRecordsChosenVariant ==
  \A r \in Range(returned) :
    r.status \in Accepted => LastRow.image_url = r.tried[Len(r.tried)].url

\* C14 (amended): the image URL of a row is the first-preference URL of the
\* candidate, whichever variant was chosen; the byte count and the digest of
\* a downloaded, would_download or duplicate row are those of the chosen
\* variant, and so is the saved path of a downloaded row.
C14_RowRecordsFirstUrl ==
  \A r \in Range(returned) :
    /\ LastRow.image_url = r.candidate.urls[1]
    /\ LastRow.status = r.status
    /\ r.status \in Accepted =>
         /\ LastRow.bytes = r.tried[Len(r.tried)].resp.body.len
         /\ LastRow.sha256 = Sha256(r.tried[Len(r.tried)].resp.body)
         /\ r.status = "downloaded" =>
              LastRow.saved_path
                = OutPath(LastRow.page_url, r.tried[Len(r.tried)].url, LastRow.sha256)
    /\ r.status \notin Accepted => LastRow.bytes = 0 /\ LastRow.sha256 = <<>>
    /\ r.status # "downloaded" => LastRow.saved_path = <<>>

\* The second variant of a candidate was chosen and the row carries the first.
C14_Witness ==
  /\ returned # <<>>
  /\ returned[1].status \in Accepted
  /\ Len(returned[1].tried) = 2
  /\ LastRow.image_url = returned[1].candidate.urls[1]
  /\ LastRow.image_url # returned[1].tried[2].url

\* The page reached the terminal state s in this step.
C15_Ends(u, s) == page_outcomes'[u] = Append(page_outcomes[u], s)

C15_Failing(resp) == IF resp.err THEN TRUE ELSE resp.status >= 400

\* C15: a page whose fetch raises a transport error, answers with a status
\* >= 400 or is not HTML is marked visited, is not counted, writes no row and
\* enqueues no link, and the loop goes on with the next frontier entry; a
\* failing fetch of an image variant abandons that variant alone: the next
\* variant is tried, or after the last one the candidate ends as
\* failed_all_variants and the page goes on.  The crawl ends only where the
\* loop condition ends it.
C15_FailuresSwallowed ==
  /\ [][\A u \in PageUrls :
          C15_Ends(u, "failed") \/ C15_Ends(u, "rejected") =>
            /\ u = Head(queue)
            /\ queue' = Tail(queue)
            /\ visited_pages' = visited_pages \cup {u}
            /\ page_fetches'[u] = page_fetches[u] + 1
            /\ total_pages' = total_pages
            /\ manifest' = manifest
            /\ enqueued' = enqueued
            /\ seen_image_urls' = seen_image_urls
            /\ pc' = "loop"
            /\ result' = result]_vars
  /\ [][pc = "resolve" /\ Len(tried') = Len(tried) + 1 =>
          /\ tried'[Len(tried')].url = Variant
          /\ pc' = "resolve"
          /\ vi' = vi + 1
          /\ ci' = ci
          /\ manifest' = manifest]_vars
  /\ [][manifest' # manifest /\ Len(returned'[1].tried) = Len(tried) + 1 =>
          (C15_Failing(returned'[1].tried[Len(returned'[1].tried)].resp) =>
             /\ returned'[1].status = "failed_all_variants"
             /\ Len(returned'[1].tried) = Len(candidates[ci].urls)
             /\ pc' = "cands"
             /\ ci' = ci + 1)]_vars
  /\ [][pc' # pc /\ pc' \in {"done", "aborted"} =>
          \/ pc = "init"
          \/ pc = "loop" /\ (queue = <<>> \/ total_pages >= args.max_pages)]_vars
  /\ [](\A u \in PageUrls :
          page_outcomes[u] \in {<<"failed">>, <<"rejected">>} =>
            /\ u \in visited_pages
            /\ u \notin Processed
            /\ \A i \in DOMAIN manifest : manifest[i].page_url # u)

\* One page failed, another was rejected, and the page after them was crawled
\* and wrote a row.
C15_Witness ==
  /\ page_outcomes[PU] = <<"failed">>
  /\ page_outcomes[P2] = <<"rejected">>
  /\ \E i \in DOMAIN manifest : manifest[i].page_url = PB

\* None of the supplied start URLs is an http(s) URL.
C16_NoValidStartUrl ==
  \A i \in DOMAIN args.start_urls : args.start_urls[i].scheme \notin {"http", "https"}

\* C16: when none of the supplied start URLs normalizes to a valid http(s)
\* URL the crawl aborts with an error result before any crawling: nothing is
\* fetched, the frontier and the seen-sets stay as they were before the call,
\* and no manifest (no file at all) is written; with a valid start URL the
\* crawl does not abort and the manifest is created.
C16_AbortsBeforeCrawling ==
  /\ C16_NoValidStartUrl =>
       /\ pc \in {"init", "aborted"}
       /\ pc = "aborted" => result = 2
       /\ PagesFetched = {}
       /\ tried = <<>> /\ returned = <<>>
       /\ queue = <<>> /\ enqueued = {}
       /\ visited_pages = {} /\ seen_image_urls = {} /\ seen_hashes = {}
       /\ allowed_hosts = {}
       /\ total_pages = 0
       /\ manifest = <<>>
       /\ files = {}
  /\ ~C16_NoValidStartUrl =>
       /\ pc # "aborted"
       /\ result # 2
       /\ pc # "init" => ManifestPath \in files

\* The crawl aborted: the only start URL was an ftp URL.
C16_Witness ==
  /\ pc = "aborted"
  /\ result = 2
  /\ C16_NoValidStartUrl
  /\ args.start_urls # <<>>

RowsWith(status) == Cardinality({i \in DOMAIN manifest : manifest[i].status = status})

\* C17: at the end of a crawl the summary reports one count per outcome, and
\* for each of the six outcomes the reported count is the number of manifest
\* rows written with that outcome.
C17_SummaryCountsMatchRows ==
  pc = "done" => \A status \in Outcomes : SummaryCount(status) = RowsWith(status)

\* The URL, lowered, holds one of the skip keywords of the crawl.
C18_Matches(url) ==
  \E k \in skip_keywords : k \in {Lower(url.host)} \cup {Lower(t) : t \in Range(url.path)}

\* C18: when the variant under consideration matches a skip keyword the
\* resolver returns skipped_custom_keyword at once: neither that variant nor a
\* later one is fetched, whatever the profile flag of the candidate, and
\* SeenContentHashes is left unchanged; it returns skipped_custom_keyword in
\* no other case.
C18_KeywordSkipsAtOnce ==
  /\ [](\A i \in DOMAIN tried : ~C18_Matches(tried[i].url))
  /\ [](\A r \in Range(returned) :
          /\ \A k \in DOMAIN r.candidate.urls :
               C18_Matches(r.candidate.urls[k]) => Len(r.tried) < k
          /\ r.status = "skipped_custom_keyword" <=>
               /\ Len(r.tried) < Len(r.candidate.urls)
               /\ C18_Matches(r.candidate.urls[Len(r.tried) + 1])
               /\ (r.tried # <<>> => C9_Rejects(r.tried[Len(r.tried)]))
          /\ C18_Matches(r.candidate.urls[1]) =>
               /\ r.status = "skipped_custom_keyword"
               /\ r.tried = <<>>
               /\ LastRow.status = "skipped_custom_keyword"
               /\ LastRow.sha256 = <<>>)
  /\ [][(manifest' # manifest /\ manifest'[Len(manifest')].status = "skipped_custom_keyword")
          => /\ seen_hashes' = seen_hashes
             /\ files' = files
             /\ returned'[1].tried = tried]_vars

\* The first variant was fetched and abandoned, the second matched a skip
\* keyword: skipped_custom_keyword, with a digest recorded earlier still there.
C18_Witness ==
  /\ returned # <<>>
  /\ returned[1].status = "skipped_custom_keyword"
  /\ Len(returned[1].tried) = 1
  /\ C18_Matches(returned[1].candidate.urls[2])
  /\ seen_hashes # {}

\* C19: in dry-run mode no image file is written and no candidate ends as
\* downloaded: the first acceptable content not seen before yields
\* would_download, with no saved path, and its digest is recorded, so that a
\* later candidate with the same bytes yields duplicate; outside dry-run mode
\* would_download is never produced.
C19_DryRunWritesNothing ==
  /\ args.dry_run =>
       /\ files \subseteq {ManifestPath}
       /\ counts.downloaded = 0
       /\ \A i \in DOMAIN manifest :
            /\ manifest[i].status # "downloaded"
            /\ manifest[i].saved_path = <<>>
            /\ manifest[i].status = "would_download" =>
                 /\ manifest[i].sha256 \in seen_hashes
                 /\ \A j \in 1..(i - 1) : manifest[j].sha256 # manifest[i].sha256
            /\ manifest[i].status = "duplicate" =>
                 \E j \in 1..(i - 1) :
                   /\ manifest[j].status = "would_download"
                   /\ manifest[j].sha256 = manifest[i].sha256
  /\ \A r \in Range(returned) :
       (args.dry_run /\ r.tried # <<>> /\ ~C9_Rejects(r.tried[Len(r.tried)])) =>
         r.status \in {"would_download", "duplicate"}
  /\ ~args.dry_run =>
       /\ counts.would_download = 0
       /\ \A i \in DOMAIN manifest :
            /\ manifest[i].status # "would_download"
            /\ manifest[i].status = "downloaded" => manifest[i].saved_path \in files

\* A dry run: a would_download row, then a duplicate row of another image URL
\* with the same digest, and no image file.
C19_Witness ==
  /\ args.dry_run
  /\ files = {ManifestPath}
  /\ \E i, j \in DOMAIN manifest :
       /\ i < j
       /\ manifest[i].status = "would_download"
       /\ manifest[j].status = "duplicate"
       /\ manifest[i].sha256 = manifest[j].sha256

\* The first rewrite rule, in the order of the source, that gives the path p.
C20_RuleOf(p) ==
  CHOOSE k \in 1..5 :
    /\ PathRewrites(img_src.path)[k] = p
    /\ \A m \in 1..(k - 1) : PathRewrites(img_src.path)[m] # p

\* The variants that come after the input URL and the query-stripped variant.
C20_PathPart(vs) ==
  SubSeq(vs, IF StripThumbnailQueryParams(img_src) # img_src THEN 3 ELSE 2, Len(vs))

\* C20: for every input URL the variant resolver returns a non-empty sequence
\* without duplicates whose first element is the input URL, followed by the
\* query-stripped variant (if there is one) and then by the path-rewrite
\* variants in the fixed order of the rewrite rules; the same input always
\* yields the same sequence.
C20_VariantsInRuleOrder ==
  \A k \in DOMAIN runs :
    /\ runs[k].variants # <<>>
    /\ runs[k].variants[1] = img_src
    /\ \A i, j \in DOMAIN runs[k].variants :
         i # j => runs[k].variants[i] # runs[k].variants[j]
    /\ StripThumbnailQueryParams(img_src) # img_src =>
         /\ Len(runs[k].variants) >= 2
         /\ runs[k].variants[2] = StripThumbnailQueryParams(img_src)
    /\ \A i, j \in DOMAIN C20_PathPart(runs[k].variants) :
         i < j => C20_RuleOf(C20_PathPart(runs[k].variants)[i].path)
                    < C20_RuleOf(C20_PathPart(runs[k].variants)[j].path)
    /\ \A j \in DOMAIN runs : runs[j].variants = runs[k].variants

\* The index of the earliest candidate of out whose first URL is u.
C21_Earliest(out, u) ==
  CHOOSE i \in DOMAIN out :
    /\ out[i].urls[1] = u
    /\ \A j \in 1..(i - 1) : out[j].urls[1] # u

\* C21: the candidates the extractor returns for a page have pairwise distinct
\* first URLs: for each first URL the earliest extracted candidate is kept as
\* it is (a candidate of an image element before one of a plain anchor), the
\* later ones are dropped, their variants and profile flag not merged, and the
\* kept candidates stay in extraction order.
C21_FirstCandidateKept ==
  (fn_call # None /\ fn_call.fn = "extract_image_candidates" /\ fn_ret # <<>>) =>
    LET page == fn_call.arg
        out == page.imgs \o page.anchors
        kept == fn_ret[1]
    IN /\ \A k, l \in DOMAIN kept : k # l => kept[k].urls[1] # kept[l].urls[1]
       /\ {kept[k].urls[1] : k \in DOMAIN kept} = {out[i].urls[1] : i \in DOMAIN out}
       /\ \A k \in DOMAIN kept : kept[k] = out[C21_Earliest(out, kept[k].urls[1])]
       /\ \A k, l \in DOMAIN kept :
            k < l => C21_Earliest(out, kept[k].urls[1]) < C21_Earliest(out, kept[l].urls[1])
       /\ \A k \in DOMAIN kept :
            (\E i \in DOMAIN page.imgs : page.imgs[i].urls[1] = kept[k].urls[1]) =>
              kept[k] = page.imgs[C21_Earliest(page.imgs, kept[k].urls[1])]

\* An image element flagged as a profile image, with two variants, was kept
\* and a plain anchor to its first URL, found later, was dropped.
C21_Witness ==
  /\ fn_call # None
  /\ fn_call.fn = "extract_image_candidates"
  /\ fn_ret # <<>>
  /\ Cand(<<ImgFull>>, FALSE) \in Range(fn_call.arg.anchors)
  /\ fn_ret[1] = <<Cand(<<ImgFull, ImgCdn>>, TRUE), Cand(<<ImgCdn>>, FALSE)>>

\* The chunks of a srcset that are entries with a valid URL.
C22_Entries(srcset) ==
  {i \in DOMAIN srcset : srcset[i] # <<>> /\ NormalizeUrl(srcset[i][1]) # None}

\* The claim's score is defined: no descriptor, or a number with w or x.
C22_Scored(bits) ==
  Len(bits) > 1 => (bits[2].num.kind = "dec" /\ Lower(bits[2].suffix) \in {"w", "x"})

\* The claim's score of an entry as a fraction <<numerator, denominator>>:
\* Nw scores N, Nx scores N*1000, no descriptor scores 1.
C22_Score(bits) ==
  IF Len(bits) > 1
  THEN LET lit == bits[2].num
           n == IF lit.neg THEN -lit.mant ELSE lit.mant
       IN <<IF Lower(bits[2].suffix) = "x" THEN n * 1000 ELSE n, Pow10(lit.frac)>>
  ELSE <<1, 1>>

C22_Greater(a, b) == a[1] * b[2] > b[1] * a[2]

\* C22: for every srcset value with at least one entry with a valid URL, the
\* URL chosen is that of the entry of maximum score (Nw scores N, Nx scores
\* N*1000, no descriptor scores 1), the earliest among those of maximum score.
C22_MaxScoreEntryChosen ==
  (fn_call # None /\ fn_call.fn = "parse_srcset_best" /\ fn_ret # <<>>) =>
    LET srcset == fn_call.arg.srcset
        entries == C22_Entries(srcset)
    IN (entries # {} /\ \A i \in entries : C22_Scored(srcset[i])) =>
         \E i \in entries :
           /\ \A j \in entries : ~C22_Greater(C22_Score(srcset[j]), C22_Score(srcset[i]))
           /\ \A j \in entries :
                j < i => C22_Greater(C22_Score(srcset[i]), C22_Score(srcset[j]))
           /\ fn_ret[1] = Returned(NormalizeUrl(srcset[i][1]))

\* The URL with the thumbnail-related query keys removed, nothing else changed.
C23_Removed(url) ==
  LET Kept(prm) == Lower(prm.key) \notin URL_QUERY_THUMB_KEYS
  IN [url EXCEPT !.query = SelectSeq(url.query, Kept)]

\* C23: for every URL the variants the resolver returns hold the URL with the
\* thumbnail-related query keys removed exactly when the removal changes the
\* query string (no other variant differs from the URL in its query), and the
\* URL alone when it carries no thumbnail key and no path rule applies.
C23_QueryVariantOnlyForThumbKeys ==
  (fn_call # None /\ fn_call.fn = "guess_fullsize_variants" /\ fn_ret # <<>>) =>
    LET url == fn_call.arg.url
        out == fn_ret[1]
        removed == C23_Removed(url)
    IN /\ {v \in Range(out) : v # url /\ v.path = url.path}
            = (IF removed # url THEN {removed} ELSE {})
       /\ (removed = url /\ PathVariants(url.path) \subseteq {<<>>, url.path}) => out = <<url>>

====
